---- MODULE Spec2Model ----
(***************************************************************************)
(* Model of backend/server.py: comment ingestion (create_comment) and the  *)
(* two alert detectors it awaits (check_sentiment_alerts,                  *)
(* check_volume_alerts), over the comments and alerts collections, the     *)
(* routes that update a stored comment or alert, the brand, mention and    *)
(* post routes, and the scoring functions.                                 *)
(*                                                                         *)
(* Time is counted in ticks of half an hour.  Sentiment scores are VADER   *)
(* compound scores in hundredths (-0.05 is -5).  A float quotient n / d is *)
(* kept as the reduced fraction <<n', d'>> with d' > 0: for the counts a   *)
(* window can hold, two quotients are equal as floats exactly when their   *)
(* reduced fractions are equal, and a comparison against 0.3, 0.5 or 2.0   *)
(* has the outcome of the exact comparison.                                *)
(*                                                                         *)
(* Every await of the code is one step of the calling process: the other   *)
(* calls and the clock may move between two steps.  Every operation of     *)
(* create_comment on the store may fail (the driver raises).               *)
(***************************************************************************)
EXTENDS Integers, Sequences, FiniteSets, TLC

\* ---------------------------------------------------------------- bounds

\* Spec: the clock runs up to MaxTime ticks.
MaxTime == 3
\* SpecWindow: the clock runs up to WindowTime ticks.
WindowTime == 4
\* SpecSlow: the clock runs up to SlowTime ticks.
SlowTime == 7
\* SpecWindow: the store starts with the comments of earlier calls for one
\* brand: up to SeedOthers that are not negative and then up to
\* SeedNegatives negative ones, or up to SeedPrevious made an hour ago and
\* up to SeedCurrent just made.
\* SpecApi: the clock runs up to ApiTime ticks.
ApiTime == 3
\* SpecScores, SpecPure: compound scores run from -MaxScore to MaxScore
\* hundredths.
MaxScore == 100
\* SpecPure: engagements run from 0 to MaxEngagement.
MaxEngagement == 150
SeedOthers == 7
SeedNegatives == 5
SeedPrevious == 10
SeedCurrent == 34

\* The comments of the current hour that earlier calls left in a store
\* larger than the cap of the sentiment find: those that are not negative
\* and the negative ones.
CapOthers == 600
CapNegatives == 400

\* ------------------------------------------------------------- constants

\* timedelta(hours=1), in ticks.
Hour == 2
\* to_list(1000): the cap of a find's result.
ScanCap == 1000

Procs == {"p1", "p2"}
Brands == {"b1", "b2"}
\* The compound scores a classification may return, in hundredths.
Scores == {-60, 0}

NoComment == [id |-> <<>>]
NoAlert == [id |-> <<>>]
NoMention == [id |-> <<>>]
NoPost == [id |-> <<>>]
NoBrand == [id |-> <<>>]
NoBrandCreate == [name |-> <<>>]
NoUpdate == <<>>
\* No call of a scoring function.
NoScoring == [function |-> <<>>]

VARIABLES
    now,                  \* datetime.utcnow(), in ticks
    comments,             \* db.comments, in insertion order
    alerts,               \* db.alerts, in insertion order
    pc,                   \* where each call of create_comment stands
    comment,              \* the Comment object of the call
    one_hour_ago,         \* check_volume_alerts: local
    two_hours_ago,        \* check_volume_alerts: local
    current_hour_count,   \* check_volume_alerts: local
    alert,                \* the Alert object create_alert is inserting
    response,             \* what the call returned: "none", "ok", "error"
    ops,                  \* the store operations the call has completed
    calls,                \* calls started so far
    faults,               \* store operations failed so far
    mentions,             \* db.mentions, in insertion order
    posts,                \* db.posts, in insertion order
    brands,               \* db.brands, in insertion order
    mention,              \* the Mention object of the call
    post,                 \* the Post object of the call
    brand,                \* the Brand object of the call
    brand_data,           \* the BrandCreate body of the call
    path_id,              \* the id in the path of the call's route
    update,               \* the $set document of the call's update_one
    scoring               \* a call of analyze_sentiment or calculate_priority

vars == <<now, comments, alerts, pc, comment, one_hour_ago, two_hours_ago,
          current_hour_count, alert, response, ops, calls, faults, mentions,
          posts, brands, mention, post, brand, brand_data, path_id, update,
          scoring>>

locals == <<one_hour_ago, two_hours_ago, current_hour_count>>

\* What the routes other than create_comment read and write, and the
\* scoring call.
other_routes == <<mentions, posts, brands, mention, post, brand, brand_data,
                  path_id, update, scoring>>

\* ------------------------------------------------------------ arithmetic

Abs(n) == IF n < 0 THEN -n ELSE n

RECURSIVE GCD(_, _)
GCD(a, b) == IF b = 0 THEN a ELSE GCD(b, a % b)

\* The float n / d (d > 0) as a reduced fraction.
Quotient(n, d) ==
    LET g == GCD(Abs(n), d)
    IN  <<n \div g, d \div g>>

\* q > k / m for a quotient q and k, m > 0.
Exceeds(q, k, m) == q[1] * m > k * q[2]

Min(a, b) == IF a <= b THEN a ELSE b

\* ------------------------------------------------------- pure functions

\* Mutant: compound_score > 0.05 and compound_score < -0.05.
sentiment_type_within(compound_score) ==
    IF compound_score > 5 THEN "positive"
    ELSE IF compound_score < -5 THEN "negative"
    ELSE "neutral"

\* analyze_sentiment: the category of a compound score.
sentiment_type_of(compound_score) ==
    IF compound_score >= 5 THEN "positive"
    ELSE IF compound_score <= -5 THEN "negative"
    ELSE "neutral"

\* Mutant: `return priority`, without the cap.
calculate_priority_uncapped(sentiment_score, engagement) ==
    LET base == IF sentiment_score <= -50 THEN 5
                ELSE IF sentiment_score <= -10 THEN 3
                ELSE IF sentiment_score >= 50 THEN 1
                ELSE 0
        bonus == IF engagement > 100 THEN 2
                 ELSE IF engagement > 50 THEN 1
                 ELSE 0
    IN  base + bonus

\* Mutant: the additions of the two negative bands are exchanged.
calculate_priority_bands_swapped(sentiment_score, engagement) ==
    LET base == IF sentiment_score <= -50 THEN 3
                ELSE IF sentiment_score <= -10 THEN 5
                ELSE IF sentiment_score >= 50 THEN 1
                ELSE 0
        bonus == IF engagement > 100 THEN 2
                 ELSE IF engagement > 50 THEN 1
                 ELSE 0
    IN  Min(base + bonus, 5)

\* Mutant: the additions of the two engagement bands are exchanged.
calculate_priority_bonus_swapped(sentiment_score, engagement) ==
    LET base == IF sentiment_score <= -50 THEN 5
                ELSE IF sentiment_score <= -10 THEN 3
                ELSE IF sentiment_score >= 50 THEN 1
                ELSE 0
        bonus == IF engagement > 100 THEN 1
                 ELSE IF engagement > 50 THEN 2
                 ELSE 0
    IN  Min(base + bonus, 5)

\* calculate_priority(sentiment_score, engagement).
calculate_priority(sentiment_score, engagement) ==
    LET base == IF sentiment_score <= -50 THEN 5
                ELSE IF sentiment_score <= -10 THEN 3
                ELSE IF sentiment_score >= 50 THEN 1
                ELSE 0
        bonus == IF engagement > 100 THEN 2
                 ELSE IF engagement > 50 THEN 1
                 ELSE 0
    IN  Min(base + bonus, 5)

\* Mutant: sentiment_score < -0.1 or priority > 3.
needs_response_above(sentiment_score, priority) ==
    sentiment_score < -10 \/ priority > 3

\* needs_response of create_comment.
needs_response_of(sentiment_score, priority) ==
    sentiment_score < -10 \/ priority >= 3

\* Mutant: create_comment scores the comment with an engagement of 60.
Comment_with_engagement(id, brand_id, created_at, sentiment_score) ==
    LET priority == calculate_priority(sentiment_score, 60)
    IN  [id |-> id,
         brand_id |-> brand_id,
         created_at |-> created_at,
         sentiment_score |-> sentiment_score,
         sentiment_type |-> sentiment_type_of(sentiment_score),
         needs_response |-> needs_response_of(sentiment_score, priority),
         has_response |-> FALSE,
         response_time |-> <<>>,
         priority |-> priority]

\* The Comment object create_comment builds; Optional fields are sequences
\* of length 0 (None) or 1.
Comment(id, brand_id, created_at, sentiment_score) ==
    LET priority == calculate_priority(sentiment_score, 0)
    IN  [id |-> id,
         brand_id |-> brand_id,
         created_at |-> created_at,
         sentiment_score |-> sentiment_score,
         sentiment_type |-> sentiment_type_of(sentiment_score),
         needs_response |-> needs_response_of(sentiment_score, priority),
         has_response |-> FALSE,
         response_time |-> <<>>,
         priority |-> priority]

\* Mutant: the Alert model takes acknowledged_at from the clock by default.
Alert_stamped(id, brand_id, alert_type, severity, title, created_at, data) ==
    [id |-> id,
     brand_id |-> brand_id,
     alert_type |-> alert_type,
     severity |-> severity,
     title |-> title,
     created_at |-> created_at,
     is_acknowledged |-> FALSE,
     acknowledged_at |-> <<created_at>>,
     data |-> data]

\* The Alert object create_alert builds from an AlertCreate.
Alert(id, brand_id, alert_type, severity, title, created_at, data) ==
    [id |-> id,
     brand_id |-> brand_id,
     alert_type |-> alert_type,
     severity |-> severity,
     title |-> title,
     created_at |-> created_at,
     is_acknowledged |-> FALSE,
     acknowledged_at |-> <<>>,
     data |-> data]

\* The Mention object create_mention builds.
Mention(id, brand_id, created_at, sentiment_score, engagement) ==
    [id |-> id,
     brand_id |-> brand_id,
     created_at |-> created_at,
     sentiment_score |-> sentiment_score,
     sentiment_type |-> sentiment_type_of(sentiment_score),
     engagement |-> engagement]

\* The Post object create_post builds.
Post(id, brand_id, created_at, sentiment_score) ==
    [id |-> id,
     brand_id |-> brand_id,
     created_at |-> created_at,
     sentiment_score |-> sentiment_score,
     sentiment_type |-> sentiment_type_of(sentiment_score)]

\* The Brand object create_brand builds from a BrandCreate.
Brand(id, name, created_at) ==
    [id |-> id,
     name |-> name,
     created_at |-> created_at,
     is_active |-> TRUE]

\* int(delta.total_seconds() / 60) for a delta in ticks.
minutes(ticks) == (ticks * 60) \div Hour

\* --------------------------------------------------------- store queries

\* cursor.to_list(length): at most length documents, in cursor order.
\* Mutant: to_list returns every document of the cursor.
to_list_whole(cursor, length) == cursor

to_list(cursor, length) ==
    SubSeq(cursor, 1, Min(Len(cursor), length))

\* Mutant: the find takes the comments made after `since` ($gt).
find_after(collection, brand_id, since) ==
    SelectSeq(collection,
              LAMBDA c: c.brand_id = brand_id /\ c.created_at > since)

\* Mutant: the find takes the comments of every brand.
find_since_any_brand(collection, brand_id, since) ==
    SelectSeq(collection, LAMBDA c: c.created_at >= since)

\* db.comments.find({"brand_id": b, "created_at": {"$gte": since}}) over
\* the collection.
find_since(collection, brand_id, since) ==
    SelectSeq(collection,
              LAMBDA c: c.brand_id = brand_id /\ c.created_at >= since)

\* db.comments.count_documents({"brand_id": b, "created_at": {"$gte": since}}).
count_since(collection, brand_id, since) ==
    Cardinality({i \in DOMAIN collection :
                    /\ collection[i].brand_id = brand_id
                    /\ collection[i].created_at >= since})

\* db.comments.count_documents({"brand_id": b,
\*     "created_at": {"$gte": since, "$lt": until}}).
count_between(collection, brand_id, since, until) ==
    Cardinality({i \in DOMAIN collection :
                    /\ collection[i].brand_id = brand_id
                    /\ collection[i].created_at >= since
                    /\ collection[i].created_at < until})

\* Mutant: an insert is sent again and the document is stored twice.
insert_one_twice(collection, document) ==
    Append(Append(collection, document), document)

\* collection.insert_one(document).
insert_one(collection, document) == Append(collection, document)

\* The documents of a collection with an id, in cursor order.
with_id(collection, id) ==
    SelectSeq(collection, LAMBDA d: d.id = id)

\* collection.find_one({"id": id}): a sequence of length 0 (None) or 1.
find_one(collection, id) == to_list(with_id(collection, id), 1)

\* A document after {"$set": fields}.
set_fields(document, fields) ==
    [k \in DOMAIN document \union DOMAIN fields |->
        IF k \in DOMAIN fields THEN fields[k] ELSE document[k]]

\* The first place of a collection that holds a document with an id, or 0.
first_with_id(collection, id) ==
    IF \E i \in DOMAIN collection : collection[i].id = id
    THEN CHOOSE i \in DOMAIN collection :
            /\ collection[i].id = id
            /\ \A j \in 1..(i - 1) : collection[j].id # id
    ELSE 0

\* Mutant: the update of a document also clears its needs_response.
update_one_clearing_need(collection, id, fields) ==
    LET i == first_with_id(collection, id)
    IN  IF i = 0 THEN collection
        ELSE [collection EXCEPT ![i] =
                 [k \in DOMAIN @ \union DOMAIN fields |->
                     IF k \in DOMAIN fields THEN fields[k]
                     ELSE IF k = "needs_response" THEN FALSE
                     ELSE @[k]]]

\* collection.update_one({"id": id}, {"$set": fields}): the first document
\* with the id is updated, if there is one.
update_one(collection, id, fields) ==
    LET i == first_with_id(collection, id)
    IN  IF i = 0 THEN collection
        ELSE [collection EXCEPT ![i] = set_fields(@, fields)]

\* collection.replace_one({"id": id}, document).
replace_one(collection, id, document) ==
    LET i == first_with_id(collection, id)
    IN  IF i = 0 THEN collection
        ELSE [collection EXCEPT ![i] = document]

\* Mutant: create_alert skips an alert whose brand, type and data an alert
\* of the collection already has.
insert_alert_unless_same(collection, document) ==
    IF \E i \in DOMAIN collection :
          /\ collection[i].brand_id = document.brand_id
          /\ collection[i].alert_type = document.alert_type
          /\ collection[i].data = document.data
    THEN collection
    ELSE Append(collection, document)

\* Mutant: create_alert skips an alert while the brand has an
\* unacknowledged alert of the same type.
insert_alert_unless_open(collection, document) ==
    IF \E i \in DOMAIN collection :
          /\ collection[i].brand_id = document.brand_id
          /\ collection[i].alert_type = document.alert_type
          /\ ~collection[i].is_acknowledged
    THEN collection
    ELSE Append(collection, document)

\* Mutant: create_alert skips an alert while the brand has an
\* unacknowledged alert of any type, so that a detector reads what the
\* other one wrote.
insert_alert_unless_any_open(collection, document) ==
    IF \E i \in DOMAIN collection :
          /\ collection[i].brand_id = document.brand_id
          /\ ~collection[i].is_acknowledged
    THEN collection
    ELSE Append(collection, document)

\* create_alert: await db.alerts.insert_one(alert.dict()).
insert_alert(collection, document) == insert_one(collection, document)

\* [c for c in recent_comments if c.get('sentiment_type') == 'negative'].
negative_comments(recent) ==
    SelectSeq(recent, LAMBDA c: c.sentiment_type = "negative")

\* ------------------------------------------------------------- detectors

\* Mutant: negative_ratio >= 0.3.
sentiment_trips_at_threshold(negative_ratio) ==
    negative_ratio[1] * 10 >= 3 * negative_ratio[2]

\* negative_ratio > 0.3.
sentiment_trips(negative_ratio) == Exceeds(negative_ratio, 3, 10)

\* Mutant: AlertSeverity.HIGH if negative_ratio >= 0.5.
sentiment_severity_at_half(negative_ratio) ==
    IF negative_ratio[1] * 2 >= negative_ratio[2] THEN "high" ELSE "medium"

\* AlertSeverity.HIGH if negative_ratio > 0.5 else AlertSeverity.MEDIUM.
sentiment_severity(negative_ratio) ==
    IF Exceeds(negative_ratio, 1, 2) THEN "high" ELSE "medium"

\* Mutant: the guard `if not recent_comments: return` is missing.
window_never_empty(recent) == FALSE

\* `if not recent_comments: return`.
window_empty(recent) == Len(recent) = 0

\* Mutant: previous_hour_count >= 0.
has_previous_or_none(previous_hour_count) == previous_hour_count >= 0

\* previous_hour_count > 0.
has_previous(previous_hour_count) == previous_hour_count > 0

\* Mutant: volume_increase >= 2.0.
volume_trips_at_threshold(volume_increase) ==
    volume_increase[1] >= 2 * volume_increase[2]

\* volume_increase > 2.0.
volume_trips(volume_increase) == Exceeds(volume_increase, 2, 1)

\* severity=AlertSeverity.HIGH.
volume_severity == "high"

\* What a detector does once its reads are done: it returns, it raises, or
\* it calls create_alert with an AlertCreate.
Returns == [outcome |-> "return"]
Raises == [outcome |-> "raise"]
Creates(alert_type, severity, title, data) ==
    [outcome |-> "create", alert_type |-> alert_type, severity |-> severity,
     title |-> title, data |-> data]

\* check_sentiment_alerts after its find, which the collection answers at
\* time at.
check_sentiment_alerts(collection, brand_id, at) ==
    LET recent_comments ==
            to_list(find_since(collection, brand_id, at - 2 * Hour), ScanCap)
        total == Len(recent_comments)
        negative == Len(negative_comments(recent_comments))
    IN  IF window_empty(recent_comments) THEN Returns
        ELSE IF total = 0 THEN Raises    \* ZeroDivisionError
        ELSE LET negative_ratio == Quotient(negative, total)
             IN  IF sentiment_trips(negative_ratio)
                 THEN Creates("sentiment",
                              sentiment_severity(negative_ratio),
                              "High Negative Sentiment Detected",
                              [negative_ratio |-> negative_ratio,
                               total_comments |-> total])
                 ELSE Returns

\* Mutant: the volume alert's data carries the previous hour's count as
\* current_count.
check_volume_alerts_previous_count(current_hour_count_, previous_hour_count) ==
    IF ~has_previous(previous_hour_count) THEN Returns
    ELSE IF previous_hour_count = 0 THEN Raises
    ELSE LET volume_increase ==
                 Quotient(current_hour_count_ - previous_hour_count,
                          previous_hour_count)
         IN  IF volume_trips(volume_increase)
             THEN Creates("volume", volume_severity,
                          "Unusual Activity Volume",
                          [volume_increase |-> volume_increase,
                           current_count |-> previous_hour_count])
             ELSE Returns

\* check_volume_alerts after its two counts.
check_volume_alerts(current_hour_count_, previous_hour_count) ==
    IF ~has_previous(previous_hour_count) THEN Returns
    ELSE IF previous_hour_count = 0 THEN Raises    \* ZeroDivisionError
    ELSE LET volume_increase ==
                 Quotient(current_hour_count_ - previous_hour_count,
                          previous_hour_count)
         IN  IF volume_trips(volume_increase)
             THEN Creates("volume", volume_severity,
                          "Unusual Activity Volume",
                          [volume_increase |-> volume_increase,
                           current_count |-> current_hour_count_])
             ELSE Returns

\* Mutant: create_alert builds the Alert without the data of the
\* AlertCreate, which the model then defaults to an empty dict.
create_alert_without_data(alert_data, brand_id, comment_id, at) ==
    Alert(<<comment_id, alert_data.alert_type>>, brand_id,
          alert_data.alert_type, alert_data.severity, alert_data.title, at,
          <<>>)

\* create_alert: the Alert object built from an AlertCreate at time at.  Its
\* uuid is the pair of the call's comment id and the alert type, which no
\* other alert has.
create_alert(alert_data, brand_id, comment_id, at) ==
    Alert(<<comment_id, alert_data.alert_type>>, brand_id,
          alert_data.alert_type, alert_data.severity, alert_data.title, at,
          alert_data.data)

\* ----------------------------------------------------------- transitions

\* The awaits of a call on the store.
StoreSteps == {"insert_comment", "sentiment_find", "sentiment_alert",
               "count_current", "count_previous", "volume_alert"}

\* The locals of a call that has ended.
forget(p) ==
    /\ alert' = [alert EXCEPT ![p] = NoAlert]
    /\ one_hour_ago' = [one_hour_ago EXCEPT ![p] = 0]
    /\ two_hours_ago' = [two_hours_ago EXCEPT ![p] = 0]
    /\ current_hour_count' = [current_hour_count EXCEPT ![p] = 0]

\* Mutant: an exception leaving create_comment removes the call's comment.
comments_rolled_back(p) ==
    SelectSeq(comments, LAMBDA c: c.id # comment[p].id)

\* What an exception leaving create_comment does to the comments
\* collection: nothing the call has written is undone.
comments_after_raise(p) == comments

\* Mutant: create_comment logs the exception and goes on to the detectors.
swallow(p) ==
    /\ pc' = [pc EXCEPT ![p] = "sentiment_find"]
    /\ UNCHANGED <<response, alert, locals, comments, alerts>>

\* An exception leaves create_comment: nothing catches it and the caller
\* gets an error.
propagate(p) ==
    /\ pc' = [pc EXCEPT ![p] = "raised"]
    /\ response' = [response EXCEPT ![p] = "error"]
    /\ comments' = comments_after_raise(p)
    /\ forget(p)
    /\ UNCHANGED alerts

\* `return comment` of create_comment.
return_comment(p) ==
    /\ pc' = [pc EXCEPT ![p] = "returned"]
    /\ response' = [response EXCEPT ![p] = "ok"]
    /\ forget(p)

\* A detector's outcome, where after is the call's next await when the
\* detector returns and inserting its await in create_alert.
continue(p, outcome, after, inserting) ==
    IF outcome.outcome = "raise"
    THEN propagate(p)
    ELSE IF outcome.outcome = "create"
    THEN /\ alert' = [alert EXCEPT ![p] =
                 create_alert(outcome, comment[p].brand_id, comment[p].id,
                              now)]
         /\ pc' = [pc EXCEPT ![p] = inserting]
         /\ UNCHANGED <<response, locals, comments, alerts>>
    ELSE IF after = "returned"
    THEN /\ return_comment(p)
         /\ UNCHANGED <<comments, alerts>>
    ELSE /\ pc' = [pc EXCEPT ![p] = after]
         /\ UNCHANGED <<alert, response, locals, comments, alerts>>

\* The clock advances.
Tick ==
    /\ now' = now + 1
    /\ UNCHANGED <<comments, alerts, pc, comment, locals, alert, response,
                   ops, calls, faults>>
    /\ UNCHANGED other_routes

\* The store raises in the operation a call awaits.
store_raises(p) ==
    /\ pc[p] \in StoreSteps
    /\ faults' = faults + 1
    /\ propagate(p)
    /\ UNCHANGED <<now, comment, ops, calls>>
    /\ UNCHANGED other_routes

\* create_comment up to its first await: the comment is classified,
\* scored and built.  Its uuid is the number of the call.
create_comment(p, brand_id, compound_score) ==
    /\ pc[p] \in {"idle", "returned", "raised"}
    /\ comment' = [comment EXCEPT ![p] =
                      Comment(<<"call", calls + 1>>, brand_id, now,
                              compound_score)]
    /\ calls' = calls + 1
    /\ pc' = [pc EXCEPT ![p] = "insert_comment"]
    /\ response' = [response EXCEPT ![p] = "none"]
    /\ ops' = [ops EXCEPT ![p] = <<>>]
    /\ UNCHANGED <<now, comments, alerts, locals, alert, faults>>
    /\ UNCHANGED other_routes

\* await db.comments.insert_one(comment.dict()).
insert_comment(p) ==
    /\ pc[p] = "insert_comment"
    /\ comments' = insert_one(comments, comment[p])
    /\ pc' = [pc EXCEPT ![p] = "sentiment_find"]
    /\ ops' = [ops EXCEPT ![p] = Append(@, "insert_comment")]
    /\ UNCHANGED <<now, alerts, comment, locals, alert, response, calls,
                   faults>>
    /\ UNCHANGED other_routes

\* check_sentiment_alerts from its find to create_alert's await.
sentiment_find(p) ==
    /\ pc[p] = "sentiment_find"
    /\ continue(p, check_sentiment_alerts(comments, comment[p].brand_id, now),
                "volume_begin", "sentiment_alert")
    /\ ops' = [ops EXCEPT ![p] = Append(@, "find")]
    /\ UNCHANGED <<now, comment, calls, faults>>
    /\ UNCHANGED other_routes

\* await db.alerts.insert_one(alert.dict()), for the sentiment alert.
sentiment_alert(p) ==
    /\ pc[p] = "sentiment_alert"
    /\ alerts' = insert_alert(alerts, alert[p])
    /\ alert' = [alert EXCEPT ![p] = NoAlert]
    /\ pc' = [pc EXCEPT ![p] = "volume_begin"]
    /\ ops' = [ops EXCEPT ![p] = Append(@, "insert_alert")]
    /\ UNCHANGED <<now, comments, comment, locals, response, calls, faults>>
    /\ UNCHANGED other_routes

\* check_volume_alerts: one_hour_ago = datetime.utcnow() - timedelta(hours=1).
volume_begin(p) ==
    /\ pc[p] = "volume_begin"
    /\ one_hour_ago' = [one_hour_ago EXCEPT ![p] = now - Hour]
    /\ pc' = [pc EXCEPT ![p] = "volume_clock"]
    /\ UNCHANGED <<now, comments, alerts, comment, two_hours_ago,
                   current_hour_count, alert, response, ops, calls, faults>>
    /\ UNCHANGED other_routes

\* check_volume_alerts: two_hours_ago = datetime.utcnow() - timedelta(hours=2),
\* a second reading of the clock.
volume_clock(p) ==
    /\ pc[p] = "volume_clock"
    /\ two_hours_ago' = [two_hours_ago EXCEPT ![p] = now - 2 * Hour]
    /\ pc' = [pc EXCEPT ![p] = "count_current"]
    /\ UNCHANGED <<now, comments, alerts, comment, one_hour_ago,
                   current_hour_count, alert, response, ops, calls, faults>>
    /\ UNCHANGED other_routes

\* current_hour_count = await db.comments.count_documents(...).
count_current(p) ==
    /\ pc[p] = "count_current"
    /\ current_hour_count' = [current_hour_count EXCEPT ![p] =
           count_since(comments, comment[p].brand_id, one_hour_ago[p])]
    /\ pc' = [pc EXCEPT ![p] = "count_previous"]
    /\ ops' = [ops EXCEPT ![p] = Append(@, "count")]
    /\ UNCHANGED <<now, comments, alerts, comment, one_hour_ago,
                   two_hours_ago, alert, response, calls, faults>>
    /\ UNCHANGED other_routes

\* check_volume_alerts from its second count to create_alert's await, or to
\* create_comment's return.
count_previous(p) ==
    /\ pc[p] = "count_previous"
    /\ continue(p,
                check_volume_alerts(
                    current_hour_count[p],
                    count_between(comments, comment[p].brand_id,
                                  two_hours_ago[p], one_hour_ago[p])),
                "returned", "volume_alert")
    /\ ops' = [ops EXCEPT ![p] = Append(@, "count")]
    /\ UNCHANGED <<now, comment, calls, faults>>
    /\ UNCHANGED other_routes

\* await db.alerts.insert_one(alert.dict()), for the volume alert, and
\* create_comment's return.
volume_alert(p) ==
    /\ pc[p] = "volume_alert"
    /\ alerts' = insert_alert(alerts, alert[p])
    /\ ops' = [ops EXCEPT ![p] = Append(@, "insert_alert")]
    /\ return_comment(p)
    /\ UNCHANGED <<now, comments, comment, calls, faults>>
    /\ UNCHANGED other_routes

\* One step of a call in progress.
step(p) ==
    \/ insert_comment(p)
    \/ sentiment_find(p)
    \/ sentiment_alert(p)
    \/ volume_begin(p)
    \/ volume_clock(p)
    \/ count_current(p)
    \/ count_previous(p)
    \/ volume_alert(p)

\* ---------------------------------------------------------- other routes

\* What the calls of create_comment keep.
ingestion == <<locals, ops, faults>>

\* A route up to its first await, which is `await`.
begin(p, await) ==
    /\ pc[p] \in {"idle", "returned", "raised"}
    /\ calls' = calls + 1
    /\ pc' = [pc EXCEPT ![p] = await]
    /\ response' = [response EXCEPT ![p] = "none"]
    /\ UNCHANGED <<now, comments, alerts, mentions, posts, brands, ingestion,
                   scoring>>

\* A route from one await to the next.
goes_on(p, await) ==
    /\ pc' = [pc EXCEPT ![p] = await]
    /\ UNCHANGED <<now, response, calls, ingestion, scoring>>

\* A route returns its result.
returns(p) ==
    /\ pc' = [pc EXCEPT ![p] = "returned"]
    /\ response' = [response EXCEPT ![p] = "ok"]
    /\ UNCHANGED <<now, calls, ingestion, scoring>>

\* raise HTTPException(status_code=404, ...), after a find_one.
not_found(p) ==
    /\ pc' = [pc EXCEPT ![p] = "raised"]
    /\ response' = [response EXCEPT ![p] = "not_found"]
    /\ UNCHANGED <<now, calls, ingestion, scoring>>
    /\ UNCHANGED <<comments, alerts, mentions, posts, brands, comment, alert,
                   mention, post, brand, brand_data, path_id, update>>

\* create_mention up to its await: the mention is classified and built.
create_mention(p, brand_id, compound_score, engagement) ==
    /\ begin(p, "insert_mention")
    /\ mention' = [mention EXCEPT ![p] =
                      Mention(<<"call", calls + 1>>, brand_id, now,
                              compound_score, engagement)]
    /\ UNCHANGED <<comment, alert, post, brand, brand_data, path_id, update>>

\* Mutant: create_mention stores the mention where the detectors read.
insert_mention_among_comments(p) ==
    /\ pc[p] = "insert_mention"
    /\ mentions' = insert_one(mentions, mention[p])
    /\ comments' = insert_one(comments, mention[p])
    /\ returns(p)
    /\ UNCHANGED <<alerts, posts, brands, comment, alert, mention,
                   post, brand, brand_data, path_id, update>>

\* await db.mentions.insert_one(mention.dict()), and `return mention`.
insert_mention(p) ==
    /\ pc[p] = "insert_mention"
    /\ mentions' = insert_one(mentions, mention[p])
    /\ returns(p)
    /\ UNCHANGED <<comments, alerts, posts, brands, comment, alert, mention,
                   post, brand, brand_data, path_id, update>>

\* create_post up to its await: the post is classified and built.
create_post(p, brand_id, compound_score) ==
    /\ begin(p, "insert_post")
    /\ post' = [post EXCEPT ![p] =
                   Post(<<"call", calls + 1>>, brand_id, now, compound_score)]
    /\ UNCHANGED <<comment, alert, mention, brand, brand_data, path_id,
                   update>>

\* await db.posts.insert_one(post.dict()), and `return post`.
insert_post(p) ==
    /\ pc[p] = "insert_post"
    /\ posts' = insert_one(posts, post[p])
    /\ returns(p)
    /\ UNCHANGED <<comments, alerts, mentions, brands, comment, alert,
                   mention, post, brand, brand_data, path_id, update>>

\* create_brand up to its await.
create_brand(p, name) ==
    /\ begin(p, "insert_brand")
    /\ brand' = [brand EXCEPT ![p] = Brand(<<"call", calls + 1>>, name, now)]
    /\ UNCHANGED <<comment, alert, mention, post, brand_data, path_id,
                   update>>

\* await db.brands.insert_one(brand.dict()), and `return brand`.
insert_brand(p) ==
    /\ pc[p] = "insert_brand"
    /\ brands' = insert_one(brands, brand[p])
    /\ returns(p)
    /\ UNCHANGED <<comments, alerts, mentions, posts, comment, alert,
                   mention, post, brand, brand_data, path_id, update>>

\* update_brand up to its first await.
update_brand(p, id, name) ==
    /\ begin(p, "find_brand")
    /\ path_id' = [path_id EXCEPT ![p] = id]
    /\ brand_data' = [brand_data EXCEPT ![p] = [name |-> name]]
    /\ UNCHANGED <<comment, alert, mention, post, brand, update>>

\* update_brand from its find_one to its replace_one: the brand found gets
\* the fields of the body.
find_brand(p) ==
    /\ pc[p] = "find_brand"
    /\ LET found == find_one(brands, path_id[p])
       IN  IF found = <<>>
           THEN not_found(p)
           ELSE /\ brand' = [brand EXCEPT ![p] =
                                set_fields(found[1], brand_data[p])]
                /\ goes_on(p, "replace_brand")
                /\ UNCHANGED <<comments, alerts, mentions, posts, brands,
                               comment, alert, mention, post, brand_data,
                               path_id, update>>

\* await db.brands.replace_one(...), and `return updated_brand`.
replace_brand(p) ==
    /\ pc[p] = "replace_brand"
    /\ brands' = replace_one(brands, path_id[p], brand[p])
    /\ returns(p)
    /\ UNCHANGED <<comments, alerts, mentions, posts, comment, alert,
                   mention, post, brand, brand_data, path_id, update>>

\* delete_brand up to its first await.
delete_brand(p, id) ==
    /\ begin(p, "find_brand_to_delete")
    /\ path_id' = [path_id EXCEPT ![p] = id]
    /\ UNCHANGED <<comment, alert, mention, post, brand, brand_data, update>>

\* delete_brand from its find_one to its update_one.
find_brand_to_delete(p) ==
    /\ pc[p] = "find_brand_to_delete"
    /\ LET found == find_one(brands, path_id[p])
       IN  IF found = <<>>
           THEN not_found(p)
           ELSE /\ brand' = [brand EXCEPT ![p] = found[1]]
                /\ update' = [update EXCEPT ![p] = [is_active |-> FALSE]]
                /\ goes_on(p, "update_brand")
                /\ UNCHANGED <<comments, alerts, mentions, posts, brands,
                               comment, alert, mention, post, brand_data,
                               path_id>>

\* await db.brands.update_one(...), and delete_brand's return.
update_brand_inactive(p) ==
    /\ pc[p] = "update_brand"
    /\ brands' = update_one(brands, path_id[p], update[p])
    /\ returns(p)
    /\ UNCHANGED <<comments, alerts, mentions, posts, comment, alert,
                   mention, post, brand, brand_data, path_id, update>>

\* mark_comment_responded up to its first await.
mark_comment_responded(p, comment_id) ==
    /\ begin(p, "find_comment")
    /\ path_id' = [path_id EXCEPT ![p] = comment_id]
    /\ UNCHANGED <<comment, alert, mention, post, brand, brand_data, update>>

\* mark_comment_responded from its find_one to its update_one: the response
\* time is taken from the clock and the comment found.
find_comment(p) ==
    /\ pc[p] = "find_comment"
    /\ LET found == find_one(comments, path_id[p])
       IN  IF found = <<>>
           THEN not_found(p)
           ELSE /\ comment' = [comment EXCEPT ![p] = found[1]]
                /\ update' = [update EXCEPT ![p] =
                       [has_response |-> TRUE,
                        response_time |->
                            <<minutes(now - found[1].created_at)>>]]
                /\ goes_on(p, "update_comment")
                /\ UNCHANGED <<comments, alerts, mentions, posts, brands,
                               alert, mention, post, brand, brand_data,
                               path_id>>

\* await db.comments.update_one(...), and mark_comment_responded's return.
update_comment(p) ==
    /\ pc[p] = "update_comment"
    /\ comments' = update_one(comments, path_id[p], update[p])
    /\ returns(p)
    /\ UNCHANGED <<alerts, mentions, posts, brands, comment, alert, mention,
                   post, brand, brand_data, path_id, update>>

\* acknowledge_alert up to its first await.
acknowledge_alert(p, alert_id) ==
    /\ begin(p, "find_alert")
    /\ path_id' = [path_id EXCEPT ![p] = alert_id]
    /\ UNCHANGED <<comment, alert, mention, post, brand, brand_data, update>>

\* acknowledge_alert from its find_one to its update_one: the
\* acknowledgement time is taken from the clock.
find_alert(p) ==
    /\ pc[p] = "find_alert"
    /\ LET found == find_one(alerts, path_id[p])
       IN  IF found = <<>>
           THEN not_found(p)
           ELSE /\ alert' = [alert EXCEPT ![p] = found[1]]
                /\ update' = [update EXCEPT ![p] =
                       [is_acknowledged |-> TRUE,
                        acknowledged_at |-> <<now>>]]
                /\ goes_on(p, "update_alert")
                /\ UNCHANGED <<comments, alerts, mentions, posts, brands,
                               comment, mention, post, brand, brand_data,
                               path_id>>

\* await db.alerts.update_one(...), and acknowledge_alert's return.
update_alert(p) ==
    /\ pc[p] = "update_alert"
    /\ alerts' = update_one(alerts, path_id[p], update[p])
    /\ returns(p)
    /\ UNCHANGED <<comments, mentions, posts, brands, comment, alert,
                   mention, post, brand, brand_data, path_id, update>>

\* get_comments, get_alerts, get_mentions, get_posts, get_brands, get_brand
\* and the analytics routes up to their first await: they only read.
get(p) ==
    /\ begin(p, "find")
    /\ UNCHANGED <<comment, alert, mention, post, brand, brand_data, path_id,
                   update>>

\* The finds of a reading route, and its return.
find(p) ==
    /\ pc[p] = "find"
    /\ returns(p)
    /\ UNCHANGED <<comments, alerts, mentions, posts, brands, comment, alert,
                   mention, post, brand, brand_data, path_id, update>>

\* One step of a call of another route in progress.
route_step(p) ==
    \/ insert_mention(p)
    \/ insert_post(p)
    \/ insert_brand(p)
    \/ find_brand(p)
    \/ replace_brand(p)
    \/ find_brand_to_delete(p)
    \/ update_brand_inactive(p)
    \/ find_comment(p)
    \/ update_comment(p)
    \/ find_alert(p)
    \/ update_alert(p)
    \/ find(p)

\* ------------------------------------------------------- earlier calls

\* The alerts collection after a call of create_comment that ran alone,
\* without a fault, at the time its comment was made: the steps above, one
\* after the other.  inserted is the comments collection after its insert
\* and before the alerts collection before the call.
RanAlone(inserted, made, before) ==
    LET at == made.created_at
        sentiment == check_sentiment_alerts(inserted, made.brand_id, at)
        volume ==
            check_volume_alerts(
                count_since(inserted, made.brand_id, at - Hour),
                count_between(inserted, made.brand_id, at - 2 * Hour,
                              at - Hour))
        written(collection, outcome) ==
            IF outcome.outcome = "create"
            THEN insert_alert(collection,
                              create_alert(outcome, made.brand_id, made.id,
                                           at))
            ELSE collection
    IN  written(written(before, sentiment), volume)

\* The comments the calls of a list of requests insert.
EarlierComments(requests) ==
    [i \in 1..Len(requests) |->
        Comment(<<"earlier", i>>, requests[i].brand_id, requests[i].at,
                requests[i].compound_score)]

\* The alerts collection after the calls that inserted the comments from
\* place first to place last, each call having run alone, where before is
\* the collection before them.  The calls are taken half by half, the
\* collection after the first half being computed before the second half is
\* entered.
RECURSIVE AlertsAfter(_, _, _, _)
AlertsAfter(inserted, first, last, before) ==
    IF first > last
    THEN before
    ELSE IF first = last
    THEN RanAlone(SubSeq(inserted, 1, first), inserted[first], before)
    ELSE LET middle == (first + last) \div 2
             half == AlertsAfter(inserted, first, middle, before)
         IN  IF Len(half) >= 0
             THEN AlertsAfter(inserted, middle + 1, last, half)
             ELSE half

\* The alerts the first n of the calls that inserted the comments wrote,
\* each call having run alone.
EarlierAlerts(inserted, n) == AlertsAfter(inserted, 1, n, <<>>)

\* Requests for one brand: previous comments made at time 0, which are not
\* negative, then others that are not negative and negatives made an hour
\* later.
Requests(brand_id, previous, others, negatives) ==
    [i \in 1..(previous + others + negatives) |->
        [brand_id |-> brand_id,
         compound_score |-> IF i <= previous + others THEN 0 ELSE -60,
         at |-> IF i <= previous THEN 0 ELSE Hour]]

\* --------------------------------------------------------- specification

\* No call in progress.
Idle ==
    /\ pc = [p \in Procs |-> "idle"]
    /\ comment = [p \in Procs |-> NoComment]
    /\ one_hour_ago = [p \in Procs |-> 0]
    /\ two_hours_ago = [p \in Procs |-> 0]
    /\ current_hour_count = [p \in Procs |-> 0]
    /\ alert = [p \in Procs |-> NoAlert]
    /\ response = [p \in Procs |-> "none"]
    /\ ops = [p \in Procs |-> <<>>]
    /\ calls = 0
    /\ faults = 0
    /\ mention = [p \in Procs |-> NoMention]
    /\ post = [p \in Procs |-> NoPost]
    /\ brand = [p \in Procs |-> NoBrand]
    /\ brand_data = [p \in Procs |-> NoBrandCreate]
    /\ path_id = [p \in Procs |-> <<>>]
    /\ update = [p \in Procs |-> NoUpdate]

\* The store holds what the requests of earlier calls of create_comment
\* left.
Seeded(requests) ==
    /\ comments = EarlierComments(requests)
    /\ alerts = EarlierAlerts(EarlierComments(requests), Len(requests))
    /\ mentions = <<>>
    /\ posts = <<>>
    /\ brands = <<>>
    /\ scoring = NoScoring

\* An hour after the first of a few earlier calls for brand b1: none, or
\* one an hour ago and a few just now.
Few(current) ==
    /\ now = Hour
    /\ \E previous \in 0..1 :
          Seeded(Requests("b1", previous, current * previous, 0))
    /\ Idle

\* A worker makes its one call of create_comment.
call(p) ==
    /\ pc[p] = "idle"
    /\ \E brand_id \in Brands, compound_score \in Scores :
          create_comment(p, brand_id, compound_score)

Init == Few(2)

\* Two workers, each making one call of create_comment, a clock and a store
\* that may fail.
Next ==
    \/ now < MaxTime /\ Tick
    \/ \E p \in Procs :
          \/ call(p)
          \/ step(p)
          \/ store_raises(p)

Spec == Init /\ [][Next]_vars

\* An hour after the first of the earlier calls for brand b1, which left a
\* window for the sentiment detector or two windows for the volume detector.
InitWindow ==
    /\ now = Hour
    /\ \/ \E others \in 0..SeedOthers, negatives \in 0..SeedNegatives :
             Seeded(Requests("b1", 0, others, negatives))
       \/ \E previous \in 0..SeedPrevious, current \in 0..SeedCurrent :
             Seeded(Requests("b1", previous, current, 0))
    /\ Idle

\* One worker making one call of create_comment, a clock and a store that
\* may fail.
NextWindow ==
    \/ now < WindowTime /\ Tick
    \/ call("p1")
    \/ step("p1")
    \/ store_raises("p1")

SpecWindow == InitWindow /\ [][NextWindow]_vars

\* One worker making one call of create_comment while the clock runs on for
\* more than two hours.
NextSlow ==
    \/ now < SlowTime /\ Tick
    \/ call("p1")
    \/ step("p1")
    \/ store_raises("p1")

InitSlow == Few(3)

SpecSlow == InitSlow /\ [][NextSlow]_vars

\* The ids a request may name: those of the documents of a collection and
\* one that no document has.
Ids(collection) == {collection[i].id : i \in DOMAIN collection}
                      \union {<<"missing">>}

\* The names a brand may be given.
Names == {"n1", "n2"}

\* The engagement a mention may be posted with.
Engagements == {0, 150}

\* A worker makes its one call of a route other than create_comment.
request(p) ==
    /\ pc[p] = "idle"
    /\ \/ \E brand_id \in Brands, compound_score \in Scores,
             engagement \in Engagements :
             create_mention(p, brand_id, compound_score, engagement)
       \/ \E brand_id \in Brands, compound_score \in Scores :
             create_post(p, brand_id, compound_score)
       \/ \E name \in Names : create_brand(p, name)
       \/ \E id \in Ids(brands), name \in Names : update_brand(p, id, name)
       \/ \E id \in Ids(brands) : delete_brand(p, id)
       \/ \E id \in Ids(comments) : mark_comment_responded(p, id)
       \/ \E id \in Ids(alerts) : acknowledge_alert(p, id)
       \/ get(p)

\* An hour after the first of four earlier calls of create_comment for
\* brand b1: a comment that is not negative an hour ago and three negative
\* ones just now, which left three sentiment alerts.
InitAged ==
    /\ now = Hour
    /\ Seeded(Requests("b1", 1, 0, 3))
    /\ Idle

\* One worker making one call of create_comment while the clock runs on for
\* more than two hours past the negative comments of brand b1.
SpecAging == InitAged /\ [][NextSlow]_vars

\* An hour after the first of more than a thousand earlier calls of
\* create_comment for brand b1: one comment an hour ago, and as many just
\* now as the find of the sentiment detector returns at most.
InitCap ==
    /\ now = Hour
    /\ Seeded(Requests("b1", 1, CapOthers, CapNegatives))
    /\ Idle

\* One worker making one call of create_comment on that store.
SpecCap == InitCap /\ [][NextWindow]_vars

\* The same, after an earlier call of create_brand added a brand.
InitApi ==
    /\ now = Hour
    /\ comments = EarlierComments(Requests("b1", 1, 0, 3))
    /\ alerts = EarlierAlerts(comments, Len(comments))
    /\ mentions = <<>>
    /\ posts = <<>>
    /\ brands = <<Brand(<<"earlier", 1>>, "n1", 0)>>
    /\ scoring = NoScoring
    /\ Idle

\* Two workers, each making one call of a route, and a clock.
NextApi ==
    \/ now < ApiTime /\ Tick
    \/ \E p \in Procs :
          \/ call(p)
          \/ step(p)
          \/ request(p)
          \/ route_step(p)

SpecApi == InitApi /\ [][NextApi]_vars

\* The compound scores of a classification, in hundredths.
ScoreRange == (-MaxScore)..MaxScore

\* A worker makes its one call of a route that classifies a text, whose
\* compound score is any of the range.
classify(p) ==
    /\ pc[p] = "idle"
    /\ \E brand_id \in Brands, compound_score \in ScoreRange :
          \/ create_comment(p, brand_id, compound_score)
          \/ \E engagement \in Engagements :
                create_mention(p, brand_id, compound_score, engagement)
          \/ create_post(p, brand_id, compound_score)

\* One worker making one call of create_comment, create_mention or
\* create_post, and a clock.
NextScores ==
    \/ now < MaxTime /\ Tick
    \/ classify("p1")
    \/ step("p1")
    \/ insert_mention("p1")
    \/ insert_post("p1")

SpecScores == InitAged /\ [][NextScores]_vars

\* The engagements of a call of calculate_priority.
EngagementRange == 0..MaxEngagement

\* A call of calculate_priority with its arguments, before it returns.
Called(sentiment_score, engagement) ==
    [function |-> <<"calculate_priority">>,
     sentiment_score |-> sentiment_score,
     engagement |-> engagement,
     priority |-> <<>>]

\* calculate_priority is called with any score and engagement of the
\* ranges, on an empty store.
InitPure ==
    /\ now = 0
    /\ comments = <<>>
    /\ alerts = <<>>
    /\ mentions = <<>>
    /\ posts = <<>>
    /\ brands = <<>>
    /\ \E sentiment_score \in ScoreRange, engagement \in EngagementRange :
          scoring = Called(sentiment_score, engagement)
    /\ Idle

\* The call of calculate_priority returns.
return_priority ==
    /\ scoring # NoScoring
    /\ scoring.priority = <<>>
    /\ scoring' = [scoring EXCEPT !.priority =
                       <<calculate_priority(scoring.sentiment_score,
                                            scoring.engagement)>>]
    /\ UNCHANGED <<now, comments, alerts, pc, comment, locals, alert,
                   response, ops, calls, faults, mentions, posts, brands,
                   mention, post, brand, brand_data, path_id, update>>

NextPure == return_priority

SpecPure == InitPure /\ [][NextPure]_vars

\* ---------------------------------------------------------------- claims

\* The comments of a brand made at or after a time, and the negative ones
\* among a set of comments.
Window(brand_id, since) ==
    {i \in DOMAIN comments :
        comments[i].brand_id = brand_id /\ comments[i].created_at >= since}

Negative(window) ==
    {i \in window : comments[i].sentiment_type = "negative"}

AlertsOf(collection, brand_id, alert_type) ==
    SelectSeq(collection,
              LAMBDA a: a.brand_id = brand_id /\ a.alert_type = alert_type)

\* A step of worker p from one await to the next, in which no store
\* operation raised.
Completes(p, at) == pc[p] = at /\ pc'[p] # at /\ faults' = faults

\* C1: check_sentiment_alerts creates a sentiment alert for a brand if and
\* only if the brand's 2-hour window is not empty and more than 0.30 of its
\* comments are negative (3 negative of 10 gives none, 4 of 10 gives one):
\* the detector goes on to insert an alert exactly then, and the alerts
\* collection gets a sentiment alert only by that insert, one for the brand.
C1_SentimentAlertIffOverThreshold ==
    [][\A p \in Procs :
          LET window == Window(comment[p].brand_id, now - 2 * Hour)
              over == /\ window # {}
                      /\ 10 * Cardinality(Negative(window))
                            > 3 * Cardinality(window)
          IN  /\ Completes(p, "sentiment_find") =>
                    /\ pc'[p] = "sentiment_alert" <=> over
                    /\ pc'[p] = "sentiment_alert" =>
                          /\ alert'[p].alert_type = "sentiment"
                          /\ alert'[p].brand_id = comment[p].brand_id
                    /\ alerts' = alerts
              /\ Completes(p, "sentiment_alert") =>
                    alerts' = Append(alerts, alert[p])
              /\ (pc[p] \notin {"sentiment_find", "sentiment_alert"}
                     /\ pc'[p] # pc[p]) =>
                    \A b \in Brands :
                        AlertsOf(alerts', b, "sentiment")
                            = AlertsOf(alerts, b, "sentiment")]_vars

\* A call found 4 negative comments among the 10 of its window and its
\* sentiment alert is in the alerts collection.
C1_Witness ==
    \E i \in DOMAIN alerts :
        /\ alerts[i].id = <<<<"call", 1>>, "sentiment">>
        /\ alerts[i].data.total_comments = 10
        /\ alerts[i].data.negative_ratio = <<2, 5>>
        /\ Cardinality(Negative(Window(alerts[i].brand_id, now - 2 * Hour)))
              = 4

\* C2: a sentiment alert has severity high when more than 0.50 of the
\* window's comments are negative and medium otherwise (exactly 0.50, as 5
\* negative of 10, gives medium), whether it is being inserted or is in the
\* alerts collection, and never low or critical.
C2_SentimentSeverity ==
    [][/\ \A p \in Procs :
             Completes(p, "sentiment_find") /\ pc'[p] = "sentiment_alert" =>
                LET window == Window(comment[p].brand_id, now - 2 * Hour)
                IN  alert'[p].severity =
                        IF 2 * Cardinality(Negative(window))
                              > Cardinality(window)
                        THEN "high" ELSE "medium"
       /\ \A i \in DOMAIN alerts' :
             alerts'[i].alert_type = "sentiment" =>
                LET ratio == alerts'[i].data.negative_ratio
                IN  /\ alerts'[i].severity \in {"high", "medium"}
                    /\ alerts'[i].severity = "high"
                          <=> 2 * ratio[1] > ratio[2]]_vars

\* A call found 5 negative comments among the 10 of its window and its
\* sentiment alert, of severity medium, is in the alerts collection.
C2_Witness ==
    \E i \in DOMAIN alerts :
        /\ alerts[i].id = <<<<"call", 1>>, "sentiment">>
        /\ alerts[i].data.total_comments = 10
        /\ alerts[i].data.negative_ratio = <<1, 2>>
        /\ alerts[i].severity = "medium"

\* The comments a call of check_volume_alerts counts in its current and in
\* its previous window.
Current(p) == Window(comment[p].brand_id, one_hour_ago[p])

Previous(p) ==
    {i \in Window(comment[p].brand_id, two_hours_ago[p]) :
        comments[i].created_at < one_hour_ago[p]}

\* C3: check_volume_alerts creates a volume alert if and only if the
\* previous count is positive and the current count is more than 3 times
\* the previous one (previous 10 and current 35 alerts, current 30 does
\* not): the detector goes on to insert an alert exactly then, the alerts
\* collection gets a volume alert only by that insert, and every volume
\* alert has severity high.
C3_VolumeAlertIffTripled ==
    [][/\ \A p \in Procs :
             /\ Completes(p, "count_previous") =>
                   /\ pc'[p] = "volume_alert" <=>
                         /\ Cardinality(Previous(p)) > 0
                         /\ Cardinality(Current(p))
                               > 3 * Cardinality(Previous(p))
                   /\ pc'[p] = "volume_alert" =>
                         /\ alert'[p].alert_type = "volume"
                         /\ alert'[p].brand_id = comment[p].brand_id
                   /\ alerts' = alerts
             /\ Completes(p, "volume_alert") =>
                   alerts' = Append(alerts, alert[p])
             /\ (pc[p] \notin {"count_previous", "volume_alert"}
                    /\ pc'[p] # pc[p]) =>
                   \A b \in Brands :
                       AlertsOf(alerts', b, "volume")
                           = AlertsOf(alerts, b, "volume")
       /\ \A i \in DOMAIN alerts' :
             alerts'[i].alert_type = "volume" =>
                alerts'[i].severity = "high"]_vars

\* A call counted 35 comments in the current hour and 10 in the previous
\* one and its volume alert is in the alerts collection.
C3_Witness ==
    \E i \in DOMAIN alerts :
        /\ alerts[i].id = <<<<"call", 1>>, "volume">>
        /\ alerts[i].data.current_count = 35
        /\ alerts[i].data.volume_increase = <<5, 2>>
        /\ alerts[i].severity = "high"

\* C4: when the previous-hour window of the brand holds no comment,
\* check_volume_alerts creates no alert and raises no error, whatever the
\* current count is, and so the alerts collection never holds a volume
\* alert for a brand whose comments are all less than one hour old.
C4_NoPreviousNoVolumeAlert ==
    [][/\ \A p \in Procs :
             Completes(p, "count_previous") /\ Previous(p) = {} =>
                /\ pc'[p] = "returned"
                /\ response'[p] = "ok"
                /\ alerts' = alerts
       /\ \A b \in Brands :
             (\A i \in DOMAIN comments' :
                 comments'[i].brand_id = b =>
                    comments'[i].created_at > now' - Hour)
                => AlertsOf(alerts', b, "volume") = <<>>]_vars

\* A call that counted 35 comments in the current hour and none in the
\* previous one has returned, and the brand has no volume alert.
C4_Witness ==
    \E p \in Procs :
        /\ pc[p] = "returned"
        /\ Cardinality(Window(comment[p].brand_id, now - Hour)) = 35
        /\ Cardinality(Window(comment[p].brand_id, now - 2 * Hour)) = 35
        /\ AlertsOf(alerts, comment[p].brand_id, "volume") = <<>>

\* C5: when the brand has no comment made within the last 2 hours,
\* check_sentiment_alerts returns without creating an alert and without
\* raising an error, and the alerts collection is unchanged.
C5_EmptyWindowNoAlert ==
    [][\A p \in Procs :
          Completes(p, "sentiment_find")
             /\ Window(comment[p].brand_id, now - 2 * Hour) = {} =>
                /\ pc'[p] = "volume_begin"
                /\ response'[p] = "none"
                /\ alert'[p] = NoAlert
                /\ alerts' = alerts]_vars

\* A call's find has just returned an empty window, and the call is on its
\* way to the volume detector.
C5_Witness ==
    \E p \in Procs :
        /\ pc[p] = "volume_begin"
        /\ ops[p] = <<"insert_comment", "find">>
        /\ Window(comment[p].brand_id, now - 2 * Hour) = {}

\* A store operation that worker p awaits at `at` raises.
Fails(p, at) == pc[p] = at /\ pc'[p] # at /\ faults' = faults + 1

\* The call of worker p has inserted its comment.
Persisted(p) == ops[p] # <<>>

Stored(document, collection) ==
    \E i \in DOMAIN collection : collection[i] = document

\* C6: when alert evaluation fails (a detector's read or the insert of an
\* alert raises) after the call inserted its comment, the comment stays in
\* the comments collection: no step removes or changes a stored comment.
C6_CommentSurvivesAlertingFailure ==
    [][/\ \A p \in Procs :
             (\E at \in StoreSteps \ {"insert_comment"} : Fails(p, at)) =>
                /\ Stored(comment[p], comments)
                /\ Stored(comment'[p], comments')
       /\ \A i \in DOMAIN comments :
             i \in DOMAIN comments' /\ comments'[i] = comments[i]
       /\ \A p \in Procs :
             Persisted(p)' => Stored(comment'[p], comments')]_vars

\* The store raised in the alert evaluation of a call, after its find, while
\* the other worker's call was in progress, and the call's comment is in
\* the collection.
C6_Witness ==
    \E p \in Procs :
        /\ pc[p] = "raised"
        /\ ops[p] = <<"insert_comment", "find">>
        /\ comment[p].sentiment_type = "negative"
        /\ Stored(comment[p], comments)
        /\ \E q \in Procs \ {p} : pc[q] \notin {"idle", "returned", "raised"}

\* C7: when the store fails during alert evaluation after the comment was
\* persisted, the failure is caught and the call still reports success: a
\* call that has ended after inserting its comment has returned it.
C7_AlertingFailureStillSucceeds ==
    \A p \in Procs :
        Persisted(p) /\ pc[p] \in {"returned", "raised"} =>
            pc[p] = "returned" /\ response[p] = "ok"

\* C8: when the insert of the comment raises, the call fails visibly to its
\* caller, neither detector runs for it and it writes no alert.
C8_FailedInsertFailsCall ==
    [][\A p \in Procs :
          /\ Fails(p, "insert_comment") =>
                /\ pc'[p] = "raised"
                /\ response'[p] = "error"
                /\ ops'[p] = <<>>
                /\ alerts' = alerts
                /\ comments' = comments
          /\ (pc[p] = "raised" /\ ~Persisted(p)) =>
                /\ ops'[p] = <<>>
                /\ pc'[p] \in {"raised", "insert_comment"}
                /\ ~Stored(comment[p], comments')
                /\ \A i \in DOMAIN alerts' :
                      alerts'[i].id[1] # comment[p].id]_vars

\* The insert of a call's comment raised: the call has ended with an error,
\* its comment is not in the collection and it read and wrote nothing,
\* while the other worker's call went through.
C8_Witness ==
    \E p \in Procs :
        /\ pc[p] = "raised"
        /\ response[p] = "error"
        /\ ops[p] = <<>>
        /\ ~Stored(comment[p], comments)
        /\ \E q \in Procs \ {p} : pc[q] = "returned"

\* C9: alerting is at-least-once, not exactly-once: a call whose detector
\* tripped inserts its own alert whatever the alerts collection holds, so
\* two concurrent calls that both found the same window each insert a
\* sentiment alert with the same brand, type and payload.
C9_EveryTrippedCallInsertsItsAlert ==
    [][\A p \in Procs :
          Completes(p, "sentiment_alert") =>
             /\ Len(alerts') = Len(alerts) + 1
             /\ alerts'[Len(alerts')] = alert[p]
             /\ alert[p].id = <<comment[p].id, "sentiment">>
             /\ \A i \in DOMAIN alerts : alerts'[i] = alerts[i]]_vars

\* Two concurrent calls each added a negative comment to 3 comments that
\* were not negative, both found the window of 5 with 2 negative, and the
\* collection holds the sentiment alert of each, with the same brand and
\* payload.
C9_Witness ==
    \E i, j \in DOMAIN alerts :
        /\ alerts[i].id = <<<<"call", 1>>, "sentiment">>
        /\ alerts[j].id = <<<<"call", 2>>, "sentiment">>
        /\ alerts[i].brand_id = alerts[j].brand_id
        /\ alerts[i].data = alerts[j].data
        /\ alerts[i].data.negative_ratio = <<2, 5>>
        /\ alerts[i].data.total_comments
              = Cardinality(Window(alerts[i].brand_id, now - 2 * Hour))

\* Every call so far ran without a fault and has returned, and every
\* comment of the brand is negative and was made in the last 2 hours.
AllNegativeInWindow(brand_id) ==
    /\ faults = 0
    /\ \A p \in Procs : pc[p] \in {"idle", "returned"}
    /\ \A i \in DOMAIN comments :
          comments[i].brand_id = brand_id =>
             /\ comments[i].sentiment_type = "negative"
             /\ comments[i].created_at >= now - 2 * Hour

\* C10: no deduplication or suppression: the insert of a tripped call
\* appends a new alert also when the brand has an unacknowledged alert of
\* the same type, no step merges or removes a stored alert, and k calls
\* one after the other that add negative comments to a brand whose window
\* holds only negative comments leave exactly k sentiment alerts.
C10_NoDeduplication ==
    [][/\ \A i \in DOMAIN alerts :
             i \in DOMAIN alerts' /\ alerts'[i] = alerts[i]
       /\ \A p \in Procs :
             Completes(p, "sentiment_alert") =>
                Len(AlertsOf(alerts', comment[p].brand_id, "sentiment"))
                   = Len(AlertsOf(alerts, comment[p].brand_id, "sentiment"))
                        + 1
       /\ \A b \in Brands :
             /\ AllNegativeInWindow(b) =>
                   Len(AlertsOf(alerts, b, "sentiment"))
                      = Cardinality(Window(b, now - 2 * Hour))
             /\ AllNegativeInWindow(b)' =>
                   Len(AlertsOf(alerts', b, "sentiment"))
                      = Cardinality(Window(b, now - 2 * Hour))']_vars

\* After 5 earlier calls and one more, each adding a negative comment to
\* brand b1, the brand has 6 sentiment alerts, none acknowledged.
C10_Witness ==
    /\ AllNegativeInWindow("b1")
    /\ pc["p1"] = "returned"
    /\ Cardinality(Window("b1", now - 2 * Hour)) = 6
    /\ Len(AlertsOf(alerts, "b1", "sentiment")) = 6
    /\ \A i \in DOMAIN alerts : ~alerts[i].is_acknowledged

\* The fields of a comment that its ingestion sets and that are not for
\* tracking a response.
Ingested(c) == [k \in DOMAIN c \ {"has_response", "response_time"} |-> c[k]]

\* C11: a stored comment's sentiment_score, sentiment_type, priority and
\* needs_response never change: every step keeps every stored comment in
\* its place with all its fields but has_response and response_time, a step
\* that is not the update_one of mark_comment_responded keeps every stored
\* comment as it is, and that update sets has_response and response_time of
\* the comment named in the path and leaves every other comment unchanged.
C11_ScoringFieldsNeverChange ==
    [][/\ \A i \in DOMAIN comments :
             /\ i \in DOMAIN comments'
             /\ Ingested(comments'[i]) = Ingested(comments[i])
       /\ (\A p \in Procs : ~Completes(p, "update_comment")) =>
             \A i \in DOMAIN comments : comments'[i] = comments[i]
       /\ \A p \in Procs :
             Completes(p, "update_comment") =>
                /\ Len(comments') = Len(comments)
                /\ \A i \in DOMAIN comments :
                      \/ comments'[i] = comments[i]
                      \/ /\ comments[i].id = path_id[p]
                         /\ comments'[i].has_response
                         /\ comments'[i].response_time = update[p].response_time
                /\ \E i \in DOMAIN comments :
                      /\ comments[i].id = path_id[p]
                      /\ comments'[i].has_response]_vars

\* A comment that a call of create_comment stored with score -0.6, priority
\* 5 and needs_response has been marked responded half an hour later by the
\* other worker: it has its response time and the scoring fields it was
\* stored with, and the comments before it are as they were.
C11_Witness ==
    \E i \in DOMAIN comments :
        /\ comments[i].id = <<"call", 1>>
        /\ comments[i].has_response
        /\ comments[i].response_time = <<30>>
        /\ comments[i].sentiment_score = -60
        /\ comments[i].sentiment_type = "negative"
        /\ comments[i].priority = 5
        /\ comments[i].needs_response
        /\ \A j \in 1..(i - 1) : ~comments[j].has_response

\* How many of the store operations a call completed are of a kind.
Done(p, kind) == Cardinality({i \in DOMAIN ops[p] : ops[p][i] = kind})

\* The alerts of a type that the call of worker p wrote.
Wrote(p, alert_type) ==
    {i \in DOMAIN alerts : alerts[i].id = <<comment[p].id, alert_type>>}

\* C12: a call of create_comment that has returned made exactly one insert
\* into the comments collection, which holds its comment exactly once, and
\* between zero and two inserts into the alerts collection, which holds at
\* most one sentiment alert and at most one volume alert of the call and no
\* other alert of it.
C12_OneCommentAtMostTwoAlerts ==
    \A p \in Procs :
        pc[p] = "returned" /\ Persisted(p) =>
            /\ Done(p, "insert_comment") = 1
            /\ Len(with_id(comments, comment[p].id)) = 1
            /\ Done(p, "insert_alert") \in 0..2
            /\ Cardinality(Wrote(p, "sentiment")) <= 1
            /\ Cardinality(Wrote(p, "volume")) <= 1
            /\ Cardinality({i \in DOMAIN alerts :
                               alerts[i].id[1] = comment[p].id})
                  = Done(p, "insert_alert")
            /\ Cardinality(Wrote(p, "sentiment"))
                  + Cardinality(Wrote(p, "volume")) = Done(p, "insert_alert")

\* A call has returned after one insert of its comment and two inserts of
\* alerts, a sentiment alert and a volume alert, and the other worker's
\* call has returned after one insert of its comment and none of an alert.
C12_Witness ==
    \E p \in Procs, q \in Procs :
        /\ pc[p] = "returned"
        /\ ops[p] = <<"insert_comment", "find", "insert_alert", "count",
                      "count", "insert_alert">>
        /\ Cardinality(Wrote(p, "sentiment")) = 1
        /\ Cardinality(Wrote(p, "volume")) = 1
        /\ pc[q] = "returned"
        /\ ops[q] = <<"insert_comment", "find", "count", "count">>
        /\ Len(with_id(comments, comment[q].id)) = 1

\* The awaits of create_alert in the two detectors.
AlertInserts == {"sentiment_alert", "volume_alert"}

\* C13: the alerts collection grows only by the insert of create_alert in
\* one of the two detectors, by one alert that is not acknowledged and has
\* no acknowledgement time; no step of another route (the brand routes,
\* create_mention, create_post, mark_comment_responded, acknowledge_alert,
\* the reading routes) adds or removes an alert, and the only other change
\* of the collection is the update of acknowledge_alert.
C13_OnlyDetectorsInsertAlerts ==
    [][/\ Len(alerts') >= Len(alerts)
       /\ Len(alerts') > Len(alerts) =>
             /\ \E p \in Procs, at \in AlertInserts : Completes(p, at)
             /\ Len(alerts') = Len(alerts) + 1
             /\ SubSeq(alerts', 1, Len(alerts)) = alerts
             /\ ~alerts'[Len(alerts')].is_acknowledged
             /\ alerts'[Len(alerts')].acknowledged_at = <<>>
             /\ alerts'[Len(alerts')].alert_type \in {"sentiment", "volume"}
       /\ \A p \in Procs :
             (pc'[p] # pc[p] /\ pc[p] \notin AlertInserts) =>
                /\ Len(alerts') = Len(alerts)
                /\ pc[p] # "update_alert" => alerts' = alerts]_vars

\* A call of create_mention added a negative mention for brand b1 and has
\* returned, an alert has been acknowledged, and the collection holds the
\* three alerts it held before: no alert was added.
C13_Witness ==
    /\ \E p \in Procs, i \in DOMAIN mentions :
          /\ pc[p] = "returned"
          /\ mentions[i] = mention[p]
          /\ mention[p].brand_id = "b1"
          /\ mention[p].sentiment_type = "negative"
    /\ \E i \in DOMAIN alerts :
          /\ alerts[i].is_acknowledged
          /\ alerts[i].acknowledged_at = <<now>>
    /\ Len(alerts) = 3
    /\ \A p \in Procs : pc[p] = "returned"

\* The category the thresholds give to a compound score in hundredths.
Category(score) ==
    CASE score >= 5 -> "positive"
      [] score <= -5 -> "negative"
      [] OTHER -> "neutral"

\* The documents of the three collections that carry a classification.
Classified ==
    {comments[i] : i \in DOMAIN comments}
        \union {mentions[i] : i \in DOMAIN mentions}
        \union {posts[i] : i \in DOMAIN posts}

\* C14: the category of a compound score is positive from 0.05 up,
\* negative from -0.05 down and neutral between, both boundaries included,
\* and every stored comment, mention and post, as every one a call has
\* built, has the sentiment_type that its sentiment_score gives: positive at
\* exactly 0.05, negative at exactly -0.05, neutral at 0.0.
C14_CategoryFollowsScore ==
    /\ \A d \in Classified :
          /\ d.sentiment_type = Category(d.sentiment_score)
          /\ d.sentiment_score = 5 => d.sentiment_type = "positive"
          /\ d.sentiment_score = -5 => d.sentiment_type = "negative"
          /\ d.sentiment_score = 0 => d.sentiment_type = "neutral"
          /\ d.sentiment_score \in {-4, 4} => d.sentiment_type = "neutral"
    /\ \A p \in Procs :
          /\ comment[p] # NoComment =>
                comment[p].sentiment_type = Category(comment[p].sentiment_score)
          /\ mention[p] # NoMention =>
                mention[p].sentiment_type = Category(mention[p].sentiment_score)
          /\ post[p] # NoPost =>
                post[p].sentiment_type = Category(post[p].sentiment_score)

\* A call of create_mention stored a mention whose score is exactly -0.05
\* as negative, next to earlier comments with score 0.0 stored as neutral
\* and with score -0.6 stored as negative.
C14_Witness ==
    /\ \E i \in DOMAIN mentions :
          /\ mentions[i].sentiment_score = -5
          /\ mentions[i].sentiment_type = "negative"
    /\ \E i \in DOMAIN comments :
          /\ comments[i].sentiment_score = 0
          /\ comments[i].sentiment_type = "neutral"
    /\ \E i \in DOMAIN comments :
          /\ comments[i].sentiment_score = -60
          /\ comments[i].sentiment_type = "negative"

\* C18: every stored comment, and every comment a call has built, has
\* needs_response exactly when its stored sentiment_score is below -0.1 or
\* its stored priority is at least 3; a comment whose score is exactly -0.1
\* has priority 3 and so needs a response.
C18_NeedsResponseRule ==
    \A c \in {comments[i] : i \in DOMAIN comments}
              \union {comment[p] : p \in {q \in Procs :
                                              comment[q] # NoComment}} :
        /\ c.needs_response <=> (c.sentiment_score < -10 \/ c.priority >= 3)
        /\ c.sentiment_score = -10 => c.priority = 3 /\ c.needs_response
        /\ c.sentiment_score = -9 => c.priority = 0 /\ ~c.needs_response

\* A call of create_comment stored a comment whose score is exactly -0.1,
\* with priority 3 and needs_response, and has returned.
C18_Witness ==
    /\ pc["p1"] = "returned"
    /\ \E i \in DOMAIN comments :
          /\ comments[i] = comment["p1"]
          /\ comments[i].sentiment_score = -10
          /\ comments[i].priority = 3
          /\ comments[i].needs_response

\* The call of calculate_priority has returned.
Scored == scoring # NoScoring /\ scoring.priority # <<>>

\* The addition for a score in hundredths and the addition for an
\* engagement.
ScoreBand(score) ==
    CASE score <= -50 -> 5
      [] score > -50 /\ score <= -10 -> 3
      [] score > -10 /\ score >= 50 -> 1
      [] OTHER -> 0

EngagementBand(engagement) ==
    CASE engagement > 100 -> 2
      [] engagement <= 100 /\ engagement > 50 -> 1
      [] OTHER -> 0

\* C15: for every score and engagement calculate_priority returns the
\* smaller of 5 and the sum of the score's addition (5 up to -0.5, 3 up to
\* -0.1, 1 from 0.5, else 0) and the engagement's addition (2 above 100, 1
\* above 50, else 0): it returns 5 for (-0.6, 150) and 0 for (-0.05, 0), and
\* always a value from 0 to 5.
C15_PriorityIsCappedSum ==
    Scored =>
        LET sum == ScoreBand(scoring.sentiment_score)
                      + EngagementBand(scoring.engagement)
        IN  /\ scoring.priority[1] = IF sum <= 5 THEN sum ELSE 5
            /\ scoring.priority[1] \in 0..5
            /\ (scoring.sentiment_score = -60 /\ scoring.engagement = 150)
                  => scoring.priority[1] = 5
            /\ (scoring.sentiment_score = -5 /\ scoring.engagement = 0)
                  => scoring.priority[1] = 0

\* calculate_priority(-0.6, 150) has returned 5.
C15_Witness ==
    /\ Scored
    /\ scoring.sentiment_score = -60
    /\ scoring.engagement = 150
    /\ scoring.priority = <<5>>

\* C16, as claimed: for a fixed engagement, a call of calculate_priority
\* returns at least what it returns for any score that is not lower.
C16_PriorityNeverRisesWithScore ==
    Scored =>
        \A better \in ScoreRange :
            scoring.sentiment_score <= better =>
                scoring.priority[1]
                    >= calculate_priority(better, scoring.engagement)

\* C16, amended: for a fixed engagement, a call of calculate_priority
\* returns at least what it returns for any score that is not lower, except
\* when its score is above -0.1 and below 0.5 and the other score is 0.5 or
\* more: then it returns exactly one less.
C16_PriorityRisesOnlyAtVeryPositive ==
    Scored =>
        \A better \in ScoreRange :
            scoring.sentiment_score <= better =>
                IF scoring.sentiment_score > -10
                      /\ scoring.sentiment_score < 50 /\ better >= 50
                THEN scoring.priority[1] + 1
                        = calculate_priority(better, scoring.engagement)
                ELSE scoring.priority[1]
                        >= calculate_priority(better, scoring.engagement)

\* calculate_priority(-0.5, 0) has returned 5, more than the 3 of the
\* higher score -0.49, and calculate_priority(0.49, 0) is 0, one less than
\* the 1 of the higher score 0.5.
C16_Witness ==
    /\ Scored
    /\ scoring.sentiment_score = -50
    /\ scoring.engagement = 0
    /\ scoring.priority = <<5>>
    /\ calculate_priority(-49, 0) = 3
    /\ calculate_priority(49, 0) + 1 = calculate_priority(50, 0)

\* C17: for a fixed score, a call of calculate_priority returns at most
\* what it returns for any engagement that is not lower.
C17_PriorityNeverFallsWithEngagement ==
    Scored =>
        \A more \in EngagementRange :
            scoring.engagement <= more =>
                scoring.priority[1]
                    <= calculate_priority(scoring.sentiment_score, more)

\* calculate_priority(0.0, 51) has returned 1, above the 0 of engagement
\* 50 and below the 2 of engagement 101.
C17_Witness ==
    /\ Scored
    /\ scoring.sentiment_score = 0
    /\ scoring.engagement = 51
    /\ scoring.priority = <<1>>
    /\ calculate_priority(0, 50) = 0
    /\ calculate_priority(0, 101) = 2

\* The comments of a brand made at or after a time and before another.
Between(brand_id, since, until) ==
    {i \in Window(brand_id, since) : comments[i].created_at < until}

\* C19: check_volume_alerts takes its two windows from one instant, the
\* first reading of the clock: the previous window starts one hour before
\* the current one, the current count is that of the brand's comments made
\* in the hour before that instant, and the previous count that of the
\* brand's comments made in the hour before that.
C19_WindowsFromOneInstant ==
    [][\A p \in Procs :
          LET instant == one_hour_ago[p] + Hour
              brand_id == comment[p].brand_id
          IN  /\ Completes(p, "volume_clock") =>
                    two_hours_ago'[p] = one_hour_ago[p] - Hour
              /\ Completes(p, "count_current") =>
                    current_hour_count'[p] =
                        Cardinality(Between(brand_id, instant - Hour,
                                            instant))
              /\ Completes(p, "count_previous") =>
                    Previous(p) = Between(brand_id, instant - 2 * Hour,
                                          instant - Hour)]_vars

\* C20: check_sentiment_alerts evaluates the comments of the brand made at
\* or after the instant 2 hours before its find, and no older one: the
\* total and the ratio of its alert are those of that window, a comment
\* made exactly 2 hours before is counted, and when every negative comment
\* of the brand is more than 2 hours old no alert is created.
C20_SentimentWindowIsTwoHours ==
    [][\A p \in Procs :
          Completes(p, "sentiment_find") =>
             LET window == Window(comment[p].brand_id, now - 2 * Hour)
                 negative == Negative(window)
             IN  /\ pc'[p] = "sentiment_alert" <=>
                       10 * Cardinality(negative) > 3 * Cardinality(window)
                 /\ pc'[p] = "sentiment_alert" =>
                       /\ alert'[p].data.total_comments = Cardinality(window)
                       /\ alert'[p].data.negative_ratio =
                             Quotient(Cardinality(negative),
                                      Cardinality(window))
                 /\ (\A i \in DOMAIN comments :
                        (/\ comments[i].brand_id = comment[p].brand_id
                         /\ comments[i].sentiment_type = "negative")
                           => comments[i].created_at < now - 2 * Hour)
                       => pc'[p] = "volume_begin"]_vars

\* A call added a comment that is not negative to brand b1 exactly 2 hours
\* after the brand's 3 negative comments were made, found a window of 4
\* comments with 3 negative, and its sentiment alert is stored; the brand's
\* comment of 3 hours before is not in the total.
C20_Witness ==
    \E i \in DOMAIN alerts :
        /\ alerts[i].id = <<<<"call", 1>>, "sentiment">>
        /\ alerts[i].brand_id = "b1"
        /\ alerts[i].created_at = 3 * Hour
        /\ alerts[i].data.total_comments = 4
        /\ alerts[i].data.negative_ratio = <<3, 4>>
        /\ Cardinality(Window("b1", 0)) = 5

\* The sentiment alerts in the alerts collection and those a call is
\* inserting.
SentimentAlerts ==
    {alerts[i] : i \in {j \in DOMAIN alerts :
                            alerts[j].alert_type = "sentiment"}}
        \union {alert[p] : p \in {q \in Procs :
                                     pc[q] = "sentiment_alert"}}

\* C21, as claimed: the data of every sentiment alert has the keys
\* negative_ratio and total_count.
C21_PayloadHasTotalCount ==
    \A a \in SentimentAlerts :
        DOMAIN a.data = {"negative_ratio", "total_count"}

\* C21, amended: the data of a sentiment alert has the keys negative_ratio
\* and total_comments (not total_count), whose values are the ratio and the
\* number of comments of the window the detector's find returned for that
\* evaluation (the find returns at most ScanCap comments); the alert is
\* stored with them unchanged, whatever was inserted between the find and
\* the insert of the alert.
C21_PayloadHasTotalComments ==
    [][/\ \A p \in Procs :
             /\ (Completes(p, "sentiment_find")
                    /\ pc'[p] = "sentiment_alert") =>
                   LET window == Window(comment[p].brand_id, now - 2 * Hour)
                   IN  /\ DOMAIN alert'[p].data
                             = {"negative_ratio", "total_comments"}
                       /\ alert'[p].data.total_comments
                             = Min(Cardinality(window), ScanCap)
                       /\ Cardinality(window) <= ScanCap =>
                             alert'[p].data.negative_ratio =
                                Quotient(Cardinality(Negative(window)),
                                         Cardinality(window))
             /\ Completes(p, "sentiment_alert") =>
                   /\ alerts'[Len(alerts')].data = alert[p].data
                   /\ alerts'[Len(alerts')].id = <<comment[p].id, "sentiment">>
       /\ \A a \in SentimentAlerts' :
             DOMAIN a.data = {"negative_ratio", "total_comments"}]_vars

\* A call found its negative comment alone in the window, the other
\* worker's call then added a comment to the brand, and the first call's
\* alert is stored with ratio 1 of 1 and total 1 while the window holds 2.
C21_Witness ==
    \E i \in DOMAIN alerts :
        /\ alerts[i].alert_type = "sentiment"
        /\ alerts[i].data.negative_ratio = <<1, 1>>
        /\ alerts[i].data.total_comments = 1
        /\ Cardinality(Window(alerts[i].brand_id, now - 2 * Hour)) = 2

\* The volume alerts in the alerts collection and those a call is inserting.
VolumeAlerts ==
    {alerts[i] : i \in {j \in DOMAIN alerts : alerts[j].alert_type = "volume"}}
        \union {alert[p] : p \in {q \in Procs : pc[q] = "volume_alert"}}

\* C22, as claimed: the data of every volume alert has the keys
\* increase_ratio and current_count.
C22_PayloadHasIncreaseRatio ==
    \A a \in VolumeAlerts : DOMAIN a.data = {"increase_ratio", "current_count"}

\* C22, amended: the data of a volume alert has the keys volume_increase
\* (not increase_ratio) and current_count; volume_increase is the growth
\* rate (current - previous) / previous of the two counts of that
\* evaluation, and current_count is the number of the brand's comments its
\* count of the current window returned; the alert is stored with them
\* unchanged.
C22_PayloadHasVolumeIncrease ==
    [][/\ \A p \in Procs :
             /\ Completes(p, "count_current") =>
                   current_hour_count'[p] = Cardinality(Current(p))
             /\ (Completes(p, "count_previous")
                    /\ pc'[p] = "volume_alert") =>
                   /\ DOMAIN alert'[p].data
                         = {"volume_increase", "current_count"}
                   /\ alert'[p].data.current_count = current_hour_count[p]
                   /\ alert'[p].data.volume_increase =
                         Quotient(current_hour_count[p]
                                      - Cardinality(Previous(p)),
                                  Cardinality(Previous(p)))
             /\ Completes(p, "volume_alert") =>
                   /\ alerts'[Len(alerts')].data = alert[p].data
                   /\ alerts'[Len(alerts')].id = <<comment[p].id, "volume">>
       /\ \A a \in VolumeAlerts' :
             DOMAIN a.data = {"volume_increase", "current_count"}]_vars

\* A volume alert is stored for a call that counted 4 comments in the
\* current hour and 1 in the previous one: its data is a growth rate of 3
\* and a current_count of 4.
C22_Witness ==
    \E i \in DOMAIN alerts :
        /\ alerts[i].alert_type = "volume"
        /\ alerts[i].data.current_count = 4
        /\ alerts[i].data.volume_increase = <<3, 1>>
        /\ Cardinality(Window(alerts[i].brand_id, now - Hour)) = 4

\* The comment of worker p's call is the only comment of its brand in the
\* comments collection.
FirstOfBrand(p) ==
    /\ Stored(comment[p], comments)
    /\ \A i \in DOMAIN comments :
          comments[i].brand_id = comment[p].brand_id =>
             comments[i].id = comment[p].id

\* The comments of worker p's call in a set of positions of the comments
\* collection.
Own(p, window) == {i \in window : comments[i].id = comment[p].id}

\* C23: within one call of create_comment the comment is in the comments
\* collection before either detector reads it, and both detectors' windows
\* include it: the window of the sentiment find holds it, so that the first
\* comment of a brand, if negative, makes the call go on to insert a
\* sentiment alert of severity high with ratio 1 of 1, and the current
\* window of the volume detector counts it.
C23_WindowsIncludeOwnComment ==
    [][\A p \in Procs :
          /\ Completes(p, "sentiment_find") =>
                /\ ops[p] = <<"insert_comment">>
                /\ Stored(comment[p], comments)
                /\ Own(p, Window(comment[p].brand_id, now - 2 * Hour)) # {}
                /\ (FirstOfBrand(p)
                       /\ comment[p].sentiment_type = "negative") =>
                      /\ pc'[p] = "sentiment_alert"
                      /\ alert'[p].alert_type = "sentiment"
                      /\ alert'[p].severity = "high"
                      /\ alert'[p].data.negative_ratio = <<1, 1>>
          /\ Completes(p, "count_current") =>
                /\ Stored(comment[p], comments)
                /\ Own(p, Current(p)) # {}
                /\ current_hour_count'[p] >= 1]_vars

\* The alerts collection after the two detectors of a call ran in the
\* opposite order, check_volume_alerts before check_sentiment_alerts, alone
\* and at the time the call's comment was made.
RanSwapped(inserted, made, before) ==
    LET at == made.created_at
        sentiment == check_sentiment_alerts(inserted, made.brand_id, at)
        volume ==
            check_volume_alerts(
                count_since(inserted, made.brand_id, at - Hour),
                count_between(inserted, made.brand_id, at - 2 * Hour,
                              at - Hour))
        written(collection, outcome) ==
            IF outcome.outcome = "create"
            THEN insert_alert(collection,
                              create_alert(outcome, made.brand_id, made.id,
                                           at))
            ELSE collection
    IN  written(written(before, volume), sentiment)

\* The types, severities and payloads of the alerts of a collection that
\* the call which made a comment wrote.
AlertsFor(collection, made) ==
    {[alert_type |-> collection[i].alert_type,
      severity |-> collection[i].severity,
      data |-> collection[i].data] :
        i \in {j \in DOMAIN collection : collection[j].id[1] = made.id}}

\* No other worker has a call of create_comment in progress.
Alone(p) == \A q \in Procs \ {p} : pc[q] \in {"idle", "returned", "raised"}

\* The steps of the detectors of a call.
DetectorSteps == {"sentiment_find", "sentiment_alert", "volume_begin",
                  "volume_clock", "count_current", "count_previous",
                  "volume_alert"}

\* C24: the two detectors are independent.  No step of a detector changes
\* the comments collection, and a detector only appends to the alerts
\* collection; and when a call has inserted its comment, no other call is
\* in progress and the clock still shows the time the comment was made,
\* running check_sentiment_alerts before check_volume_alerts at that
\* instant leaves the same alerts of the call (types, severities, payloads)
\* as running them in the opposite order.  A call that ran that way, with
\* no other call ever made, has left those alerts.
C24_DetectorOrderIrrelevant ==
    [][\A p \in Procs :
          /\ pc[p] \in DetectorSteps /\ pc'[p] # pc[p] =>
                /\ comments' = comments
                /\ Len(alerts') >= Len(alerts)
                /\ SubSeq(alerts', 1, Len(alerts)) = alerts
          /\ (Completes(p, "insert_comment") /\ Alone(p)
                 /\ now = comment[p].created_at) =>
                AlertsFor(RanAlone(comments', comment[p], alerts), comment[p])
                   = AlertsFor(RanSwapped(comments', comment[p], alerts),
                               comment[p])
          /\ (pc'[p] = "returned" /\ pc[p] # "returned"
                 /\ now = comment[p].created_at
                 /\ \A q \in Procs \ {p} : pc[q] = "idle") =>
                AlertsFor(alerts', comment[p])
                   = AlertsFor(RanSwapped(comments, comment[p], <<>>),
                               comment[p])]_vars

\* A call has written its sentiment alert and its volume alert, in that
\* order, within the instant its comment was made, and they are the alerts
\* the opposite order leaves.
C24_Witness ==
    \E p \in Procs :
        /\ pc[p] = "returned"
        /\ now = comment[p].created_at
        /\ Alone(p)
        /\ Cardinality(AlertsFor(alerts, comment[p])) = 2
        /\ AlertsFor(alerts, comment[p])
              = AlertsFor(RanSwapped(comments, comment[p], <<>>), comment[p])

\* The number of events of every type (comments, mentions, posts) stored
\* for a brand and made at or after a time.
EventsSince(brand_id, since) ==
    LET in(collection) ==
            Cardinality({i \in DOMAIN collection :
                            /\ collection[i].brand_id = brand_id
                            /\ collection[i].created_at >= since})
    IN  in(comments) + in(mentions) + in(posts)

\* The awaits at which a route stores its event.
EventInserts == {"insert_comment", "insert_mention", "insert_post"}

C26_NoCountExceedsCap ==
    /\ \A a \in SentimentAlerts : a.data.total_comments <= ScanCap
    /\ \A a \in VolumeAlerts : a.data.current_count <= ScanCap
    /\ \A p \in Procs : current_hour_count[p] <= ScanCap

\* C26, amended: only the find of the sentiment detector is capped.  The
\* window total of check_sentiment_alerts is the smaller of the cap and
\* the number of the brand's comments made in the last 2 hours, so no
\* sentiment alert has a total above the cap; the two counts of
\* check_volume_alerts have no cap: they are the full numbers of the
\* brand's comments in the current and in the previous window, also when
\* that is more than the cap.
C26_OnlySentimentFindIsCapped ==
    [][/\ \A p \in Procs :
             /\ Completes(p, "sentiment_find") =>
                   LET window == Window(comment[p].brand_id, now - 2 * Hour)
                       total == Min(Cardinality(window), ScanCap)
                   IN  /\ (total = 0) => pc'[p] = "volume_begin"
                       /\ pc'[p] = "sentiment_alert" =>
                             alert'[p].data.total_comments = total
             /\ Completes(p, "count_current") =>
                   current_hour_count'[p] = Cardinality(Current(p))
             /\ (Completes(p, "count_previous")
                    /\ pc'[p] = "volume_alert") =>
                   /\ alert'[p].data.current_count = current_hour_count[p]
                   /\ alert'[p].data.volume_increase =
                         Quotient(current_hour_count[p]
                                      - Cardinality(Previous(p)),
                                  Cardinality(Previous(p)))
       /\ \A a \in SentimentAlerts' :
             a.data.total_comments <= ScanCap]_vars

\* A call on a store with more comments in the window than the cap wrote
\* a sentiment alert whose total is the cap and a volume alert whose
\* current_count is above it.
C26_Witness ==
    \E i, j \in DOMAIN alerts :
        /\ alerts[i].id = <<<<"call", 1>>, "sentiment">>
        /\ alerts[i].data.total_comments = ScanCap
        /\ Cardinality(Window(alerts[i].brand_id,
                               alerts[i].created_at - 2 * Hour)) > ScanCap
        /\ alerts[j].id = <<<<"call", 1>>, "volume">>
        /\ alerts[j].data.current_count > ScanCap

\* A comments collection without the comments of the brands other than
\* brand_id, and one with a negative comment more for each of them, made
\* at time at.
WithoutOthers(collection, brand_id) ==
    SelectSeq(collection, LAMBDA c: c.brand_id = brand_id)

RECURSIVE WithOthers(_, _, _)
WithOthers(collection, others, at) ==
    IF others = {} THEN collection
    ELSE LET other == CHOOSE o \in others : TRUE
         IN  WithOthers(Append(collection,
                               Comment(<<"other", other>>, other, at, -60)),
                        others \ {other}, at)

\* The comments collections that differ from the stored one in the
\* comments of the brands other than brand_id.
OtherStores(brand_id) ==
    {WithoutOthers(comments, brand_id),
     WithOthers(comments, Brands \ {brand_id}, now)}

\* C27: brands are isolated.  Every alert a call of create_comment builds
\* and inserts has the brand_id of the call's comment; and what each
\* detector does (return, or create an alert with its severity and data)
\* and what it counts is what it would do and count on a store without
\* the other brands' comments and on a store with more of them.
C27_BrandsAreIsolated ==
    [][\A p \in Procs :
          LET brand_id == comment[p].brand_id
          IN  /\ Completes(p, "sentiment_find") =>
                    /\ pc'[p] = "sentiment_alert" =>
                          alert'[p].brand_id = brand_id
                    /\ \A store \in OtherStores(brand_id) :
                          LET outcome ==
                                  check_sentiment_alerts(store, brand_id, now)
                          IN  /\ (pc'[p] = "sentiment_alert")
                                    = (outcome.outcome = "create")
                              /\ pc'[p] = "sentiment_alert" =>
                                    /\ alert'[p].severity = outcome.severity
                                    /\ alert'[p].data = outcome.data
              /\ Completes(p, "count_current") =>
                    \A store \in OtherStores(brand_id) :
                       current_hour_count'[p]
                          = count_since(store, brand_id, one_hour_ago[p])
              /\ Completes(p, "count_previous") =>
                    /\ pc'[p] = "volume_alert" =>
                          alert'[p].brand_id = brand_id
                    /\ \A store \in OtherStores(brand_id) :
                          LET outcome ==
                                  check_volume_alerts(
                                      current_hour_count[p],
                                      count_between(store, brand_id,
                                                    two_hours_ago[p],
                                                    one_hour_ago[p]))
                          IN  /\ (pc'[p] = "volume_alert")
                                    = (outcome.outcome = "create")
                              /\ pc'[p] = "volume_alert" =>
                                    alert'[p].data = outcome.data
              /\ (Completes(p, "sentiment_alert")
                     \/ Completes(p, "volume_alert")) =>
                    /\ alerts' = Append(alerts, alert[p])
                    /\ alert[p].brand_id = brand_id]_vars

\* The first comment of brand b2, a negative one, left a sentiment alert
\* of brand b2 with ratio 1 of 1, while the store holds comments of brand
\* b1 that are not negative and would have kept the ratio under the
\* threshold.
C27_Witness ==
    \E i \in DOMAIN alerts :
        /\ alerts[i].brand_id = "b2"
        /\ alerts[i].alert_type = "sentiment"
        /\ alerts[i].data.negative_ratio = <<1, 1>>
        /\ alerts[i].data.total_comments = 1
        /\ Cardinality(Window("b1", now - 2 * Hour)) >= 3
        /\ Negative(Window("b1", now - 2 * Hour)) = {}
        /\ \A j \in DOMAIN alerts : alerts[j].brand_id = "b2"

\* C28: create_comment gives the priority scorer no engagement, so every
\* comment stored or built has a priority of 0, 1, 3 or 5, never 2 or 4,
\* which is calculate_priority of its sentiment_score and engagement 0:
\* the base of the score's band with no bonus.
C28_CommentPriorityWithoutEngagement ==
    \A c \in {comments[i] : i \in DOMAIN comments}
              \union {comment[p] : p \in {q \in Procs :
                                              comment[q] # NoComment}} :
        /\ c.priority \in {0, 1, 3, 5}
        /\ c.priority = calculate_priority(c.sentiment_score, 0)
        /\ c.priority = (IF c.sentiment_score <= -50 THEN 5
                         ELSE IF c.sentiment_score <= -10 THEN 3
                         ELSE IF c.sentiment_score >= 50 THEN 1
                         ELSE 0)

\* Calls of create_comment stored a comment of priority 1, whose score is
\* 0.5; the store also holds comments of priority 0 and 5.
C28_Witness ==
    /\ pc["p1"] = "returned"
    /\ \E i \in DOMAIN comments :
          /\ comments[i] = comment["p1"]
          /\ comments[i].sentiment_score = 50
          /\ comments[i].priority = 1
    /\ {0, 5} \subseteq {comments[i].priority : i \in DOMAIN comments}

====
